---- MODULE Spec2Model ----
(***************************************************************************)
(* Model of custom_components/opendisplay/tag_types.py: the TagType value  *)
(* object and the TagTypesManager cache (persisted store -> legacy store   *)
(* -> GitHub fetch -> built-in fallback), with its asyncio lock.           *)
(*                                                                         *)
(* One manager instance is modelled.  Every task performs one call of      *)
(* ensure_types_loaded; a step of the model is the code a coroutine runs   *)
(* between two suspension points (awaits that really suspend).             *)
(* Time is counted in whole hours; the run starts at hour 0, persisted     *)
(* timestamps lie in the past (negative hours).                            *)
(*                                                                         *)
(* Spec is ensure_types_loaded alone and LiveSpec the same with weak       *)
(* fairness of each call's resumption; InfoSpec has every call made by     *)
(* get_tag_info; AccessSpec adds the synchronous accessors, the module's   *)
(* wrappers and get_tag_types_manager on that manager; SingletonSpec is    *)
(* _INSTANCE with get_tag_types_manager and reset_tag_types_manager over   *)
(* numbered managers; RecordSpec is TagType alone, built from dicts that   *)
(* hold any subset of the keys.                                            *)
(***************************************************************************)
EXTENDS Integers, Sequences, FiniteSets, TLC

(***************************************************************************)
(* Bounds of the model.                                                    *)
(***************************************************************************)
\* number of ensure_types_loaded calls (one task each)
NumTasks == 2
\* hours the clock may advance during the modelled window
MaxTicks == 1

Tasks == 1..NumTasks
NoTask == 0

(***************************************************************************)
(* Python values.  None is the empty tuple, any other value v is <<v>>, so *)
(* that None compares unequal to every value of every type.                *)
(***************************************************************************)
None == <<>>
Some(v) == <<v>>
Val(o) == o[1]

\* dict.get(key, default) on a dict modelled as a function over its keys
Get(d, k, default) == IF k \in DOMAIN d THEN d[k] ELSE default

EmptyDict == [k \in {} |-> None]

\* a falsy value of Python: None or an empty dict
Truthy(o) == o # None /\ DOMAIN Val(o) # {}

(***************************************************************************)
(* Program constants.                                                      *)
(***************************************************************************)
\* CACHE_DURATION = timedelta(hours=48)
CACHE_DURATION == 48
STORAGE_VERSION == 1

\* str(type_id) and int(type_id_str) for the ids of the model
Digits == <<"0", "1", "2", "3", "4", "5", "6", "7", "8", "9">>
str(i) == IF i < 10 THEN Digits[i + 1]
          ELSE Digits[(i \div 10) + 1] \o Digits[(i % 10) + 1]
IntRange == 0..99
\* int(s): None stands for ValueError
int(s) == IF \E i \in IntRange : str(i) = s
          THEN Some(CHOOSE i \in IntRange : str(i) = s)
          ELSE None

\* datetime.isoformat() and datetime.fromisoformat(); None is ValueError
isoformat(t) == [iso |-> t]
fromisoformat(s) == IF "iso" \in DOMAIN s THEN Some(s.iso) ELSE None

(***************************************************************************)
(* TagType                                                                 *)
(***************************************************************************)
DefaultColorTable ==
    [white |-> <<255, 255, 255>>, black |-> <<0, 0, 0>>, red |-> <<255, 0, 0>>]

UnknownTypeName(type_id) == "Unknown Type " \o str(type_id)

\* TagType.__init__(type_id, data); data maps field names to Python values
TagType(type_id, data) ==
    [type_id |-> type_id,
     version |-> Get(data, "version", Some(1)),
     name |-> Get(data, "name", Some(UnknownTypeName(type_id))),
     width |-> Get(data, "width", Some(296)),
     height |-> Get(data, "height", Some(128)),
     rotatebuffer |-> Get(data, "rotatebuffer", Some(0)),
     bpp |-> Get(data, "bpp", Some(2)),
     color_table |-> Get(data, "colortable", Some(DefaultColorTable)),
     short_lut |-> Get(data, "shortlut", Some(2)),
     options |-> Get(data, "options", Some(<<>>)),
     content_ids |-> Get(data, "contentids", Some(<<>>)),
     template |-> Get(data, "template", Some(EmptyDict)),
     use_template |-> Get(data, "usetemplate", None),
     zlib_compression |-> Get(data, "zlib_compression", None)]

\* TagType.to_dict()
to_dict(r) ==
    [version |-> r.version,
     name |-> r.name,
     width |-> r.width,
     height |-> r.height,
     rotatebuffer |-> r.rotatebuffer,
     bpp |-> r.bpp,
     colortable |-> r.color_table,
     shortlut |-> r.short_lut,
     options |-> r.options,
     contentids |-> r.content_ids,
     template |-> r.template,
     usetemplate |-> r.use_template,
     zlib_compression |-> r.zlib_compression]

\* (mutant) from_dict that reads the short LUT under the attribute's name
\* only
FromDictAttributeNames(type_id, data) ==
    TagType(type_id,
        [version |-> Get(data, "version", Some(1)),
         name |-> Get(data, "name", None),
         width |-> Get(data, "width", None),
         height |-> Get(data, "height", None),
         rotatebuffer |-> Get(data, "rotatebuffer", None),
         bpp |-> Get(data, "bpp", None),
         shortlut |-> Get(data, "short_lut", None),
         colortable |-> Get(data, "colortable", None),
         options |-> Get(data, "options", Some(<<>>)),
         contentids |-> Get(data, "contentids",
                            Get(data, "content_ids", Some(<<>>))),
         template |-> Get(data, "template", Some(EmptyDict)),
         usetemplate |-> Get(data, "usetemplate", None),
         zlib_compression |-> Get(data, "zlib_compression", None)])

\* TagType.from_dict(type_id, data)
from_dict(type_id, data) ==
    TagType(type_id,
        [version |-> Get(data, "version", Some(1)),
         name |-> Get(data, "name", None),
         width |-> Get(data, "width", None),
         height |-> Get(data, "height", None),
         rotatebuffer |-> Get(data, "rotatebuffer", None),
         bpp |-> Get(data, "bpp", None),
         shortlut |-> Get(data, "short_lut", Get(data, "shortlut", None)),
         colortable |-> Get(data, "colortable", None),
         options |-> Get(data, "options", Some(<<>>)),
         contentids |-> Get(data, "contentids",
                            Get(data, "content_ids", Some(<<>>))),
         template |-> Get(data, "template", Some(EmptyDict)),
         usetemplate |-> Get(data, "usetemplate", None),
         zlib_compression |-> Get(data, "zlib_compression", None)])

EmptyTable == [i \in {} |-> None]

(***************************************************************************)
(* _validate_tag_definition and the built-in fallback definitions.         *)
(***************************************************************************)
required_fields == {"version", "name", "width", "height"}

_validate_tag_definition(data) == \A field \in required_fields : field \in DOMAIN data

\* fallback_definitions of _load_fallback_types, restricted to its first
\* three entries (ids 0, 1, 2 of the 93 built-in definitions)
fallback_definitions ==
    [type_id \in {0, 1, 2} |->
        CASE type_id = 0 -> [version |-> Some(4), name |-> Some("M2 1.54"),
                             width |-> Some(152), height |-> Some(152)]
          [] type_id = 1 -> [version |-> Some(5), name |-> Some("M2 2.9"),
                             width |-> Some(296), height |-> Some(128)]
          [] type_id = 2 -> [version |-> Some(5), name |-> Some("M2 4.2"),
                             width |-> Some(400), height |-> Some(300)]]

\* the table _load_fallback_types installs
FallbackTable ==
    [type_id \in DOMAIN fallback_definitions |->
        TagType(type_id, fallback_definitions[type_id])]

(***************************************************************************)
(* File names of the GitHub directory listing and their type ids.          *)
(***************************************************************************)
HexChars == <<"0", "1", "2", "3", "4", "5", "6", "7", "8", "9",
              "a", "b", "c", "d", "e", "f">>
UpperHexChars == <<"0", "1", "2", "3", "4", "5", "6", "7", "8", "9",
                   "A", "B", "C", "D", "E", "F">>

\* the value of one digit in the given base, None if it is no digit of it
DigitValue(c, base) ==
    IF \E i \in 1..base : HexChars[i] = c \/ UpperHexChars[i] = c
    THEN Some((CHOOSE i \in 1..base : HexChars[i] = c \/ UpperHexChars[i] = c) - 1)
    ELSE None

RECURSIVE ParseDigits(_, _, _)
\* the digits of chars read in the given base, after the value acc
ParseDigits(chars, base, acc) ==
    IF chars = <<>> THEN Some(acc)
    ELSE IF DigitValue(Head(chars), base) = None THEN None
    ELSE ParseDigits(Tail(chars), base,
                     acc * base + Val(DigitValue(Head(chars), base)))

\* int(text, base); None stands for ValueError
ParseInt(chars, base) ==
    IF chars = <<>> THEN None ELSE ParseDigits(chars, base, 0)

JsonExt == <<".", "j", "s", "o", "n">>

\* item["name"].endswith(".json")
EndsWithJson(name) ==
    /\ Len(name) >= Len(JsonExt)
    /\ SubSeq(name, Len(name) - Len(JsonExt) + 1, Len(name)) = JsonExt

\* the type id of a listed file name: hexadecimal first, then decimal;
\* None when the name is no .json file or parses as neither
ParseTypeId(name) ==
    IF ~EndsWithJson(name) THEN None
    ELSE LET base_name == SubSeq(name, 1, Len(name) - Len(JsonExt))
         IN  IF ParseInt(base_name, 16) # None THEN ParseInt(base_name, 16)
             ELSE ParseInt(base_name, 10)

RECURSIVE TypeFiles(_)
\* type_files: the (type_id, download_url) pairs of a directory listing
TypeFiles(directory_contents) ==
    IF directory_contents = <<>> THEN <<>>
    ELSE LET item == Head(directory_contents)
             type_id == ParseTypeId(item.name)
         IN  IF type_id = None THEN TypeFiles(Tail(directory_contents))
             ELSE <<[hw_type |-> Val(type_id), url |-> item.download_url]>>
                  \o TypeFiles(Tail(directory_contents))

(***************************************************************************)
(* The environment: what GitHub and the storage helper may answer.         *)
(***************************************************************************)
File01 == [name |-> <<"0", "1">> \o JsonExt, download_url |-> "url01"]
File02 == [name |-> <<"0", "2">> \o JsonExt, download_url |-> "url02"]
File10 == [name |-> <<"1", "0">> \o JsonExt, download_url |-> "url10"]
FileZz == [name |-> <<"z", "z">> \o JsonExt, download_url |-> "urlzz"]
FileReadme == [name |-> <<"R", "E", "A", "D", "M", "E", ".", "m", "d">>,
               download_url |-> "urlreadme"]

\* the directory listings GitHub may return
Listings ==
    { <<>>,
      <<FileReadme, FileZz>>,
      <<File01, FileReadme, File02>>,
      <<FileZz, File10>> }

\* the tag definition GitHub holds for a type id
WireData(type_id) ==
    CASE type_id = 1 ->
           [version |-> Some(5), name |-> Some("M2 2.9"), width |-> Some(296),
            height |-> Some(128), rotatebuffer |-> Some(1), bpp |-> Some(2),
            shortlut |-> Some(2), options |-> Some(<<"button">>),
            contentids |-> Some(<<22, 23>>), usetemplate |-> Some(1)]
      [] type_id = 2 ->
           [version |-> Some(5), name |-> Some("M2 4.2"), width |-> Some(400),
            height |-> Some(300), rotatebuffer |-> Some(0), bpp |-> Some(2),
            colortable |-> Some(DefaultColorTable), shortlut |-> Some(0),
            zlib_compression |-> Some(1)]
      [] OTHER ->
           [version |-> Some(1), name |-> Some("Type " \o str(type_id)),
            width |-> Some(200), height |-> Some(200)]

\* the same definition with its height missing
IncompleteData(type_id) ==
    [k \in DOMAIN WireData(type_id) \ {"height"} |-> WireData(type_id)[k]]

\* the answers to the download of one definition file: the request raises,
\* a status other than 200, a body that is no JSON, a JSON object
Responses(type_id) ==
    { [status |-> None, json |-> None],
      [status |-> Some(404), json |-> None],
      [status |-> Some(200), json |-> None],
      [status |-> Some(200), json |-> Some(IncompleteData(type_id))],
      [status |-> Some(200), json |-> Some(WireData(type_id))] }

\* new_types after the download of one definition (lines 406-418)
AddDefinition(new_types, hw_type, response) ==
    IF /\ response.status = Some(200)
       /\ response.json # None
       /\ _validate_tag_definition(Val(response.json))
    THEN [i \in DOMAIN new_types \cup {hw_type} |->
            IF i = hw_type THEN TagType(hw_type, Val(response.json))
            ELSE new_types[i]]
    ELSE new_types

(***************************************************************************)
(* The persisted payload: _load_from_payload and _save_to_store.           *)
(***************************************************************************)
\* self._last_update after _load_from_payload (lines 272-278)
PayloadLastUpdate(stored_data, nowv) ==
    LET last_update_str == Get(stored_data, "last_update", None)
    IN  IF last_update_str = None THEN Some(nowv)
        ELSE IF fromisoformat(Val(last_update_str)) = None THEN Some(nowv)
        ELSE fromisoformat(Val(last_update_str))

\* self._tag_types after _load_from_payload (lines 280-289); a key that
\* is no integer is skipped
PayloadTable(stored_data) ==
    LET items == Val(Get(stored_data, "tag_types", Some(EmptyDict)))
        ids == {Val(int(k)) : k \in {x \in DOMAIN items : int(x) # None}}
    IN  [type_id \in ids |->
            from_dict(type_id,
                      items[CHOOSE k \in DOMAIN items : int(k) = Some(type_id)])]

\* the data _save_to_store hands to Store.async_save (lines 256-263)
SaveData(tag_table, last_upd) ==
    [version |-> Some(STORAGE_VERSION),
     last_update |-> Some(isoformat(Val(last_upd))),
     tag_types |-> Some([k \in {str(i) : i \in DOMAIN tag_table} |->
                            to_dict(tag_table[Val(int(k))])])]

\* stored_data.get("version") == STORAGE_VERSION
VersionMatches(data) == Get(Val(data), "version", None) = Some(STORAGE_VERSION)

(***************************************************************************)
(* What the stores may hold when the manager is created.                   *)
(***************************************************************************)
\* a table as an earlier fetch of these ids installed it
RemoteTable(ids) == [i \in ids |-> TagType(i, WireData(i))]

Blob(version, hours, ids) ==
    [SaveData(RemoteTable(ids), Some(hours)) EXCEPT !.version = Some(version)]

\* a blob whose last_update is missing
BlobWithoutTimestamp(ids) ==
    [k \in {"version", "tag_types"} |-> Blob(STORAGE_VERSION, 0, ids)[k]]

InitialStores ==
    { None,
      Some(Blob(STORAGE_VERSION, 0 - (CACHE_DURATION - 1), {1, 2})),
      Some(Blob(STORAGE_VERSION, 0 - CACHE_DURATION, {1, 2})),
      Some(Blob(STORAGE_VERSION, 0 - (CACHE_DURATION - 1), {})),
      Some(Blob(STORAGE_VERSION + 1, 0 - (CACHE_DURATION - 1), {1, 2})),
      Some(BlobWithoutTimestamp({1})) }

InitialLegacyStores ==
    { None,
      Some(Blob(STORAGE_VERSION, 0 - CACHE_DURATION, {2})),
      Some(Blob(STORAGE_VERSION, 0 - (CACHE_DURATION - 1), {})),
      Some(Blob(STORAGE_VERSION + 1, 0 - (CACHE_DURATION - 1), {2})) }

(***************************************************************************)
(* State.                                                                  *)
(***************************************************************************)
VARIABLES
    now,            \* the clock, in hours
    tag_types,      \* self._tag_types
    last_update,    \* self._last_update: None or Some(hour)
    lock,           \* self._lock: the task holding it, or NoTask
    store,          \* what self._store holds: None or Some(blob)
    legacy_store,   \* what self._legacy_store holds
    legacy_file,    \* whether the legacy file exists in the config directory
    pc,             \* where each task stands in ensure_types_loaded
    ret,            \* the caller of the running _fetch_tag_types:
                    \* "load" (load_stored_data) or "refresh"
    stored_data,    \* load_stored_data's stored_data
    legacy_data,    \* load_stored_data's legacy_data
    type_files,     \* _fetch_tag_types' type_files still to download
    new_types,      \* _fetch_tag_types' new_types
    save_data,      \* _save_to_store's data
    events,         \* history: what each call has done so far
    before,         \* history: table, timestamp and store when the
                    \* call's running fetch started
    good_ids,       \* history: ids of the downloads that were complete
    fetch_result,   \* history: how the call's last fetch returned
    check,          \* history: the age of the timestamp at the staleness check
    hw_type,        \* the argument of each task's get_tag_info call; None
                    \* where the task calls ensure_types_loaded itself
    tag_def,        \* what each task's get_tag_info call returned or raised
    read,           \* what the non-warming accessors returned, where the
                    \* step just taken was a run of them; None otherwise
    _INSTANCE,      \* the module's _INSTANCE: None or Some(manager id)
    resets,         \* history: the calls of reset_tag_types_manager so far
    born,           \* history: per manager created by get_tag_types_manager,
                    \* the value of resets at its creation
    warmed,         \* the managers whose first ensure_types_loaded has returned
    gpc,            \* where each task stands in get_tag_types_manager
    awaited,        \* the manager whose ensure_types_loaded the task awaits
    got,            \* what the task's get_tag_types_manager call returned
    called_at,      \* history: the value of resets when the task called
    type_data,      \* a type id and the dict a TagType is to be built from
    built           \* what TagType(...), from_dict(...) or a save and
                    \* reload made of type_data; None before

manager == <<tag_types, last_update, lock>>
disk == <<store, legacy_store, legacy_file>>
locals == <<pc, ret, stored_data, legacy_data, type_files, new_types, save_data>>
history == <<events, before, good_ids, fetch_result, check>>
callers == <<resets, born, warmed, gpc, awaited, got, called_at>>
singleton == <<_INSTANCE, callers>>
records == <<type_data, built>>
vars == <<now, manager, disk, locals, history, hw_type, tag_def, read, singleton,
          records>>

(***************************************************************************)
(* The decisions of TagTypesManager, as the code takes them.               *)
(***************************************************************************)
\* (mutant) the guard lets every task in
LockAlwaysAvailable == TRUE

\* async with self._lock: the lock is free
LockAvailable == lock = NoTask

\* if not self._tag_types (load_stored_data is needed)
TableIsEmpty(tag_table) == DOMAIN tag_table = {}

\* (mutant) a blob of another version is treated as an absent one
ConsultLegacyAlways(data) == TRUE

\* if not stored_data: the legacy store is consulted
ConsultLegacy(data) == ~Truthy(data)

\* (mutant) the fallback is loaded whatever the table holds
LastResortAlways(tag_table) == TRUE

\* (mutant) the last-resort check is left out
LastResortNever(tag_table) == FALSE

\* the second "if not self._tag_types" of ensure_types_loaded
LastResortNeeded(tag_table) == DOMAIN tag_table = {}

\* (mutant) stale from exactly CACHE_DURATION on
IsStaleFromWindow(last_upd, nowv) ==
    \/ last_upd = None
    \/ nowv - Val(last_upd) >= CACHE_DURATION

\* not self._last_update or datetime.now() - self._last_update > CACHE_DURATION
IsStale(last_upd, nowv) ==
    \/ last_upd = None
    \/ nowv - Val(last_upd) > CACHE_DURATION

\* (mutant) the fallback is loaded without a timestamp
FallbackWithoutTimestamp(nowv) ==
    [tag_types |-> FallbackTable, last_update |-> None]

\* table and timestamp after _load_fallback_types
_load_fallback_types(nowv) ==
    [tag_types |-> FallbackTable, last_update |-> Some(nowv)]

\* if not self._last_update: self._last_update = datetime.now()
SaveLastUpdate(last_upd, nowv) == IF last_upd = None THEN Some(nowv) ELSE last_upd

\* (mutant) an empty new_types is installed and saved too
FetchCommitsAlways(assembled) == TRUE

\* if new_types: the assembled table is installed
FetchCommits(assembled) == DOMAIN assembled # {}

\* (mutant) the new definitions are merged into the old table
MergedTable(old_table, assembled) ==
    [i \in DOMAIN old_table \cup DOMAIN assembled |->
        IF i \in DOMAIN assembled THEN assembled[i] ELSE old_table[i]]

\* self._tag_types = new_types
InstalledTable(old_table, assembled) == assembled

\* (mutant) every downloaded definition is written into the live table
TableWrittenInPlace(live_table, assembled) == MergedTable(live_table, assembled)

\* self._tag_types while new_types is being assembled
TableWhileFetching(live_table, assembled) == live_table

\* (mutant) a failed fetch postpones the next attempt by a cache duration
FetchFailedBacksOff(m) ==
    IF m.last_update = None THEN m
    ELSE [tag_types |-> m.tag_types,
          last_update |-> Some(Val(m.last_update) + CACHE_DURATION)]

\* (mutant) a failed fetch loads the fallback definitions itself
FetchFailedLoadsFallback(m) ==
    [tag_types |-> FallbackTable, last_update |-> m.last_update]

\* table and timestamp when _fetch_tag_types returns False
FetchFailed(m) == m

\* (mutant) every outcome of load_stored_data ends with the cleanup
CleansUpAlways(outcome) == TRUE

\* the outcomes of load_stored_data that end with _cleanup_legacy_file:
\* both branches after the fetch (lines 239-249); the returns of lines 219
\* and 236 ("current_loaded", "migrated") come before it
CleansUp(outcome) == outcome \in {"fetch_ok", "fetch_failed"}

\* (mutant) a save that raised makes the fetch return False
FetchFailsWhenSaveRaises(raised) == ~raised

\* _fetch_tag_types returns True after _save_to_store, which logs the
\* exception of Store.async_save and returns (lines 265-268, 427-428)
FetchSucceededAfterSave(raised) == TRUE

(***************************************************************************)
(* History values.                                                         *)
(***************************************************************************)
Unchecked == [unchecked |-> TRUE]
AgeAt(last_upd, nowv) ==
    IF last_upd = None THEN [missing |-> TRUE] ELSE [age |-> nowv - Val(last_upd)]

FetchEvent(retv, success) ==
    IF retv = "load"
    THEN (IF success THEN "cold_fetch_ok" ELSE "cold_fetch_failed")
    ELSE (IF success THEN "refresh_ok" ELSE "refresh_failed")

\* a download that returned status 200 and a JSON object holding version,
\* name, width and height
CompleteDownload(response) ==
    /\ response.status = Some(200)
    /\ response.json # None
    /\ {"version", "name", "width", "height"} \subseteq DOMAIN Val(response.json)

(***************************************************************************)
(* The code that runs, without suspending, after a suspension point.  Each *)
(* operator gives the manager's table and timestamp, the task's next       *)
(* suspension point (pc) and its history.                                  *)
(***************************************************************************)
\* ensure_types_loaded from its second "if not self._tag_types" on
\* (lines 327-344), up to the fetch of the refresh or the return
EnsureAfterLoad(m, nowv, ev) ==
    LET last_resort == LastResortNeeded(m.tag_types)
        m2 == IF last_resort THEN _load_fallback_types(nowv) ELSE m
        ev2 == IF last_resort THEN ev \cup {"last_resort"} ELSE ev
        stale == IsStale(m2.last_update, nowv)
    IN  [tag_types |-> m2.tag_types,
         last_update |-> m2.last_update,
         pc |-> IF stale THEN "fetch_list" ELSE "done",
         ret |-> "refresh",
         events |-> IF stale THEN ev2 \cup {"refresh"} ELSE ev2,
         check |-> AgeAt(m2.last_update, nowv)]

\* load_stored_data ends with the given outcome: the cleanup of the legacy
\* file where the code has one, then ensure_types_loaded goes on
LoadStoredDataEnds(outcome, m, nowv, ev, retv, chk) ==
    IF CleansUp(outcome)
    THEN [tag_types |-> m.tag_types, last_update |-> m.last_update,
          pc |-> "cleanup", ret |-> retv, events |-> ev, check |-> chk]
    ELSE EnsureAfterLoad(m, nowv, ev)

\* the caller of _fetch_tag_types once it has returned: load_stored_data
\* (lines 239-249, up to the legacy file's cleanup) or ensure_types_loaded
\* (lines 341-344, which returns)
AfterFetch(retv, success, m, nowv, ev, chk) ==
    IF retv = "refresh"
    THEN [tag_types |-> m.tag_types, last_update |-> m.last_update,
          pc |-> "done", ret |-> retv, events |-> ev, check |-> chk]
    ELSE LET fallback == ~success /\ TableIsEmpty(m.tag_types)
             m2 == IF fallback THEN _load_fallback_types(nowv) ELSE m
         IN  LoadStoredDataEnds(IF success THEN "fetch_ok" ELSE "fetch_failed",
                                m2, nowv,
                                IF fallback THEN ev \cup {"fallback"} ELSE ev,
                                retv, chk)

\* what _fetch_tag_types leaves and how it is recorded when it returns
FetchResult(t, success, m, store_now, good) ==
    [success |-> success,
     good |-> good,
     untouched |-> before[t] = Some([tag_types |-> m.tag_types,
                                     last_update |-> m.last_update,
                                     store |-> store_now]),
     keys |-> DOMAIN m.tag_types]

\* (mutant) an unknown key yields a record of defaults, as dict.get would
SubscriptOrDefault(table, key) ==
    IF key \in DOMAIN table THEN [value |-> table[key]]
    ELSE [value |-> TagType(key, EmptyDict)]

\* self._tag_types[hw_type]: the record, or KeyError raised (line 598)
Subscript(table, key) ==
    IF key \in DOMAIN table THEN [value |-> table[key]]
    ELSE [raised |-> "KeyError"]

\* (mutant) the lock stays with the task when its call returns
LockNeverReleased(t, stage) == t

\* self._lock after a step of the task holding it: async with releases it
\* when the block is left (line 321)
LockAfter(t, stage) == IF stage = "done" THEN NoTask ELSE t

\* the step of task t ends with the outcome r; where the task's call is
\* get_tag_info, the return of ensure_types_loaded is followed at once by
\* the lookup of lines 598-599
Apply(t, r) ==
    /\ tag_types' = r.tag_types
    /\ last_update' = r.last_update
    /\ lock' = LockAfter(t, r.pc)
    /\ pc' = [pc EXCEPT ![t] = r.pc]
    /\ ret' = [ret EXCEPT ![t] = r.ret]
    /\ events' = [events EXCEPT ![t] = r.events]
    /\ check' = [check EXCEPT ![t] = r.check]
    /\ before' = [before EXCEPT ![t] =
                    IF r.pc = "fetch_list"
                    THEN Some([tag_types |-> r.tag_types,
                               last_update |-> r.last_update,
                               store |-> store])
                    ELSE IF r.pc \in {"fetch_entry", "fetch_save"}
                    THEN before[t]
                    ELSE None]
    /\ tag_def' = [tag_def EXCEPT ![t] =
                     IF r.pc = "done" /\ hw_type[t] # None
                     THEN Subscript(r.tag_types, Val(hw_type[t]))
                     ELSE @]

\* the step goes on inside the guarded section without touching the manager
Stay(t, next_pc, next_ret, ev) ==
    [tag_types |-> tag_types, last_update |-> last_update, pc |-> next_pc,
     ret |-> next_ret, events |-> ev, check |-> check[t]]

Manager == [tag_types |-> tag_types, last_update |-> last_update]

(***************************************************************************)
(* Initial state: a manager just constructed (lines 183-197), no call yet. *)
(***************************************************************************)
\* no get_tag_types_manager call has been made (line 660)
NoSingleton ==
    /\ _INSTANCE = None
    /\ resets = 0
    /\ born = <<>>
    /\ warmed = {}
    /\ gpc = [t \in Tasks |-> "idle"]
    /\ awaited = [t \in Tasks |-> None]
    /\ got = [t \in Tasks |-> None]
    /\ called_at = [t \in Tasks |-> 0]

\* no TagType is being built apart from the manager's own
NoRecords ==
    /\ type_data = None
    /\ built = None

\* the manager as its constructor leaves it, and no call made yet
Constructed ==
    /\ now = 0
    /\ tag_types = EmptyTable
    /\ last_update = None
    /\ lock = NoTask
    /\ tag_def = [t \in Tasks |-> None]
    /\ read = None
    /\ pc = [t \in Tasks |-> "idle"]
    /\ ret = [t \in Tasks |-> "load"]
    /\ stored_data = [t \in Tasks |-> None]
    /\ legacy_data = [t \in Tasks |-> None]
    /\ type_files = [t \in Tasks |-> <<>>]
    /\ new_types = [t \in Tasks |-> EmptyTable]
    /\ save_data = [t \in Tasks |-> None]
    /\ events = [t \in Tasks |-> {}]
    /\ before = [t \in Tasks |-> None]
    /\ good_ids = [t \in Tasks |-> {}]
    /\ fetch_result = [t \in Tasks |-> None]
    /\ check = [t \in Tasks |-> Unchecked]

Init ==
    /\ Constructed
    /\ NoSingleton
    /\ NoRecords
    /\ store \in InitialStores
    /\ legacy_store \in InitialLegacyStores
    /\ legacy_file \in BOOLEAN
    /\ hw_type = [t \in Tasks |-> None]

(***************************************************************************)
(* ensure_types_loaded                                                     *)
(***************************************************************************)
\* the code from the acquisition of the lock to the first suspension: the
\* load of the current store (empty table), the fetch of the refresh, or
\* the return (lines 321-323, 327-344)
Enter(t, ev) ==
    IF TableIsEmpty(tag_types)
    THEN Apply(t, Stay(t, "load_current", ret[t], ev \cup {"load"}))
    ELSE Apply(t, EnsureAfterLoad(Manager, now, ev))

\* a task calls ensure_types_loaded: it takes the lock if it is free and
\* waits for it otherwise
Call(t) ==
    /\ pc[t] = "idle"
    /\ LET ev == IF TableIsEmpty(tag_types) THEN {"called_cold"} ELSE {}
       IN  IF LockAvailable
           THEN Enter(t, ev)
           ELSE /\ pc' = [pc EXCEPT ![t] = "lock_wait"]
                /\ events' = [events EXCEPT ![t] = ev]
                /\ UNCHANGED <<manager, ret, before, check, tag_def>>
    /\ read' = None
    /\ UNCHANGED <<records, hw_type, singleton, now, disk, stored_data, legacy_data, type_files, new_types,
                   save_data, good_ids, fetch_result>>

\* a waiting task gets the lock once it is free
Acquire(t) ==
    /\ pc[t] = "lock_wait"
    /\ LockAvailable
    /\ Enter(t, events[t])
    /\ read' = None
    /\ UNCHANGED <<records, hw_type, singleton, now, disk, stored_data, legacy_data, type_files, new_types,
                   save_data, good_ids, fetch_result>>

(***************************************************************************)
(* load_stored_data                                                        *)
(***************************************************************************)
\* self._store.async_load() returns or raises (lines 210-222)
LoadCurrent(t) ==
    /\ pc[t] = "load_current"
    /\ \E raised \in BOOLEAN :
         LET data == IF raised THEN None ELSE store
             ev == IF raised THEN events[t] \cup {"io_error", "load_raised"}
                   ELSE events[t]
         IN  /\ stored_data' = [stored_data EXCEPT ![t] = data]
             /\ IF Truthy(data) /\ VersionMatches(data)
                THEN Apply(t, LoadStoredDataEnds("current_loaded",
                         [tag_types |-> PayloadTable(Val(data)),
                          last_update |-> PayloadLastUpdate(Val(data), now)],
                         now, ev \cup {"current_loaded"}, ret[t], check[t]))
                ELSE IF ConsultLegacy(data)
                THEN Apply(t, Stay(t, "load_legacy", ret[t], ev))
                ELSE Apply(t, Stay(t, "fetch_list", "load",
                                   ev \cup {"cold_fetch"}))
    /\ read' = None
    /\ UNCHANGED <<records, hw_type, singleton, now, disk, legacy_data, type_files, new_types, save_data,
                   good_ids, fetch_result>>

\* self._legacy_store.async_load() returns or raises (lines 223-231): a
\* legacy payload of the expected version is loaded and handed to
\* Store.async_save, anything else leads to the fetch
LoadLegacy(t) ==
    /\ pc[t] = "load_legacy"
    /\ \E raised \in BOOLEAN :
         LET data == IF raised THEN None ELSE legacy_store
             ev == IF raised
                   THEN events[t] \cup {"io_error", "legacy_load_raised"}
                   ELSE events[t]
         IN  /\ legacy_data' = [legacy_data EXCEPT ![t] = data]
             /\ IF Truthy(data) /\ VersionMatches(data)
                THEN LET table == PayloadTable(Val(data))
                         stamp == SaveLastUpdate(
                                      PayloadLastUpdate(Val(data), now), now)
                     IN  /\ Apply(t, [tag_types |-> table,
                                      last_update |-> stamp,
                                      pc |-> "legacy_save", ret |-> ret[t],
                                      events |-> ev \cup {"migrated"},
                                      check |-> check[t]])
                         /\ save_data' = [save_data EXCEPT ![t] =
                                            Some(SaveData(table, stamp))]
                ELSE /\ Apply(t, Stay(t, "fetch_list", "load",
                                      ev \cup {"cold_fetch"}))
                     /\ UNCHANGED save_data
    /\ read' = None
    /\ UNCHANGED <<records, hw_type, singleton, now, disk, stored_data, type_files, new_types, good_ids,
                   fetch_result>>

\* self._store.async_save(data) of the migration returns or raises
LegacySave(t) ==
    /\ pc[t] = "legacy_save"
    /\ \E raised \in BOOLEAN :
         /\ store' = IF raised THEN store ELSE save_data[t]
         /\ Apply(t, Stay(t, "legacy_remove", ret[t],
                          IF raised THEN events[t] \cup {"io_error"}
                          ELSE events[t] \cup {"saved"}))
    /\ read' = None
    /\ UNCHANGED <<records, hw_type, singleton, now, legacy_store, legacy_file, stored_data, legacy_data,
                   type_files, new_types, save_data, good_ids, fetch_result>>

\* storage.async_remove_store(LEGACY_STORAGE_KEY) returns or raises; then
\* load_stored_data returns (lines 232-236)
LegacyRemove(t) ==
    /\ pc[t] = "legacy_remove"
    /\ \E raised \in BOOLEAN :
         /\ legacy_store' = IF raised THEN legacy_store ELSE None
         /\ Apply(t, LoadStoredDataEnds("migrated", Manager, now,
                        IF raised THEN events[t] \cup {"io_error"}
                        ELSE events[t], ret[t], check[t]))
    /\ read' = None
    /\ UNCHANGED <<records, hw_type, singleton, now, store, legacy_file, stored_data, legacy_data,
                   type_files, new_types, save_data, good_ids, fetch_result>>

\* _cleanup_legacy_file: the executor job returns or raises OSError; then
\* load_stored_data returns (lines 293-307)
Cleanup(t) ==
    /\ pc[t] = "cleanup"
    /\ \E raised \in (IF legacy_file THEN BOOLEAN ELSE {FALSE}) :
         /\ legacy_file' = (legacy_file /\ raised)
         /\ Apply(t, EnsureAfterLoad(Manager, now,
                        IF raised THEN events[t] \cup {"cleanup", "io_error"}
                        ELSE IF legacy_file
                        THEN events[t] \cup {"cleanup", "file_removed"}
                        ELSE events[t] \cup {"cleanup"}))
    /\ read' = None
    /\ UNCHANGED <<records, hw_type, singleton, now, store, legacy_store, stored_data, legacy_data,
                   type_files, new_types, save_data, good_ids, fetch_result>>

(***************************************************************************)
(* _fetch_tag_types                                                        *)
(***************************************************************************)
\* _fetch_tag_types returns False to its caller, which runs on
ReturnFalse(t) ==
    /\ Apply(t, AfterFetch(ret[t], FALSE, FetchFailed(Manager), now,
                           events[t] \cup {FetchEvent(ret[t], FALSE)},
                           check[t]))
    /\ fetch_result' = [fetch_result EXCEPT ![t] =
                          Some(FetchResult(t, FALSE, FetchFailed(Manager), store,
                                           good_ids'[t]))]
    /\ UNCHANGED save_data

\* lines 420-444, all definitions downloaded: a non-empty new_types
\* replaces the table and is handed to Store.async_save, an empty one
\* makes the fetch return False
FinishFetch(t, assembled) ==
    IF FetchCommits(assembled)
    THEN LET table == InstalledTable(tag_types, assembled)
             stamp == SaveLastUpdate(Some(now), now)
         IN  /\ Apply(t, [tag_types |-> table, last_update |-> stamp,
                          pc |-> "fetch_save", ret |-> ret[t],
                          events |-> events[t], check |-> check[t]])
             /\ save_data' = [save_data EXCEPT ![t] = Some(SaveData(table, stamp))]
             /\ UNCHANGED fetch_result
    ELSE ReturnFalse(t)

\* the request of the directory listing fails (a status other than 200 or
\* an exception), or returns a listing (lines 359-401)
FetchList(t) ==
    /\ pc[t] = "fetch_list"
    /\ good_ids' = [good_ids EXCEPT ![t] = {}]
    /\ \/ /\ ReturnFalse(t)
          /\ UNCHANGED <<type_files, new_types>>
       \/ \E directory_contents \in Listings :
            LET files == TypeFiles(directory_contents)
            IN  /\ type_files' = [type_files EXCEPT ![t] = files]
                /\ new_types' = [new_types EXCEPT ![t] = EmptyTable]
                /\ IF files = <<>>
                   THEN FinishFetch(t, EmptyTable)
                   ELSE /\ Apply(t, Stay(t, "fetch_entry", ret[t], events[t]))
                        /\ UNCHANGED <<save_data, fetch_result>>
    /\ read' = None
    /\ UNCHANGED <<records, hw_type, singleton, now, disk, stored_data, legacy_data>>

\* the download of the next definition file returns or raises
\* (lines 405-418); after the last one the fetch finishes
FetchEntry(t) ==
    /\ pc[t] = "fetch_entry"
    /\ LET file == Head(type_files[t])
           rest == Tail(type_files[t])
       IN  \E response \in Responses(file.hw_type) :
             LET assembled == AddDefinition(new_types[t], file.hw_type, response)
             IN  /\ new_types' = [new_types EXCEPT ![t] = assembled]
                 /\ type_files' = [type_files EXCEPT ![t] = rest]
                 /\ good_ids' = [good_ids EXCEPT ![t] =
                                   IF CompleteDownload(response)
                                   THEN @ \cup {file.hw_type} ELSE @]
                 /\ IF rest # <<>>
                    THEN /\ Apply(t, [tag_types |->
                                        TableWhileFetching(tag_types, assembled),
                                      last_update |-> last_update,
                                      pc |-> "fetch_entry", ret |-> ret[t],
                                      events |-> events[t],
                                      check |-> check[t]])
                         /\ UNCHANGED <<save_data, fetch_result>>
                    ELSE FinishFetch(t, assembled)
    /\ read' = None
    /\ UNCHANGED <<records, hw_type, singleton, now, disk, stored_data, legacy_data>>

\* self._store.async_save(data) of the fetch returns or raises; the fetch
\* returns True (lines 427-428, 265-268)
FetchSave(t) ==
    /\ pc[t] = "fetch_save"
    /\ \E raised \in BOOLEAN :
         /\ store' = IF raised THEN store ELSE save_data[t]
         /\ Apply(t, AfterFetch(ret[t], FetchSucceededAfterSave(raised),
                        Manager, now,
                        events[t] \cup {FetchEvent(ret[t],
                                            FetchSucceededAfterSave(raised))}
                                  \cup (IF raised THEN {"io_error", "save_raised"}
                                        ELSE {"saved"}),
                        check[t]))
         /\ fetch_result' = [fetch_result EXCEPT ![t] =
                               Some(FetchResult(t, FetchSucceededAfterSave(raised),
                                                Manager, store', good_ids[t]))]
    /\ read' = None
    /\ UNCHANGED <<records, hw_type, singleton, now, legacy_store, legacy_file, stored_data, legacy_data,
                   type_files, new_types, save_data, good_ids>>

(***************************************************************************)
(* The clock and the specification.                                        *)
(***************************************************************************)
\* an hour passes
Tick ==
    /\ now < MaxTicks
    /\ now' = now + 1
    /\ read' = None
    /\ UNCHANGED <<manager, disk, locals, history, hw_type, tag_def, singleton, records>>

Next ==
    \/ Tick
    \/ \E t \in Tasks :
         \/ Call(t)
         \/ Acquire(t)
         \/ LoadCurrent(t)
         \/ LoadLegacy(t)
         \/ LegacySave(t)
         \/ LegacyRemove(t)
         \/ Cleanup(t)
         \/ FetchList(t)
         \/ FetchEntry(t)
         \/ FetchSave(t)

Spec == Init /\ [][Next]_vars

\* the steps of a call once made: a task whose lock is free or whose
\* storage or HTTP call has returned or raised is resumed by the event loop
Resume(t) ==
    \/ Acquire(t)
    \/ LoadCurrent(t)
    \/ LoadLegacy(t)
    \/ LegacySave(t)
    \/ LegacyRemove(t)
    \/ Cleanup(t)
    \/ FetchList(t)
    \/ FetchEntry(t)
    \/ FetchSave(t)

\* the stores the termination of the calls is checked with: nothing
\* stored, a current blob, a legacy blob to migrate and then refresh
LiveInit ==
    /\ Constructed
    /\ NoSingleton
    /\ NoRecords
    /\ store \in {None, Some(BlobWithoutTimestamp({1}))}
    /\ legacy_store \in
           {None, Some(Blob(STORAGE_VERSION, 0 - CACHE_DURATION, {2}))}
    /\ legacy_file \in BOOLEAN
    /\ hw_type = [t \in Tasks |-> None]

\* every storage and HTTP call returns or raises, and asyncio.Lock wakes
\* its waiters in turn
LiveSpec == LiveInit /\ [][Next]_vars /\ \A t \in Tasks : WF_vars(Resume(t))

(***************************************************************************)
(* get_tag_info: every task calls get_tag_info(hw_type), which awaits      *)
(* ensure_types_loaded and then looks the type up (lines 597-599).         *)
(***************************************************************************)
\* the hardware types asked for: one that stores, GitHub and the fallback
\* may hold, and one that none of them holds
HwTypes == {2, 7}

\* the stores the lookups are checked with
LookupStores == {None, Some(Blob(STORAGE_VERSION, 0 - CACHE_DURATION, {1, 2}))}
LookupLegacyStores == {None, Some(Blob(STORAGE_VERSION, 0 - CACHE_DURATION, {2}))}

InfoInit ==
    /\ Constructed
    /\ NoSingleton
    /\ NoRecords
    /\ store \in LookupStores
    /\ legacy_store \in LookupLegacyStores
    /\ legacy_file = TRUE
    /\ hw_type \in [Tasks -> {Some(h) : h \in HwTypes}]

InfoSpec == InfoInit /\ [][Next]_vars

(***************************************************************************)
(* The non-warming accessors of the manager (lines 601-656) and the        *)
(* module's wrappers of them (lines 693-744).  A result is [value |-> v]   *)
(* for a return and [raised |-> e] for an exception.                       *)
(***************************************************************************)
\* resets of the singleton in the modelled window
MaxResets == 2

\* TagType.get(attr, default): getattr(self, attr, default)
TagType_get(r, attr, default) == IF attr \in DOMAIN r THEN r[attr] ELSE default

\* (mutant) the record is subscripted without the membership test
DimensionsBySubscript(table, h) ==
    IF h \notin DOMAIN table THEN [raised |-> "KeyError"]
    ELSE [value |-> <<table[h].width, table[h].height>>]

\* TagTypesManager.get_hw_dimensions
get_hw_dimensions(table, h) ==
    IF h \notin DOMAIN table THEN [value |-> <<Some(296), Some(128)>>]
    ELSE [value |-> <<table[h].width, table[h].height>>]

\* TagTypesManager.get_hw_string
get_hw_string(table, h) ==
    IF h \notin DOMAIN table THEN [value |-> Some(UnknownTypeName(h))]
    ELSE [value |-> TagType_get(table[h], "name", Some(UnknownTypeName(h)))]

\* TagTypesManager.is_in_hw_map
is_in_hw_map(table, h) == [value |-> h \in DOMAIN table]

\* TagTypesManager.get_all_types: a copy of the table
get_all_types(table) == [value |-> table]

\* the module's get_hw_dimensions, get_hw_string and is_in_hw_map; table is
\* the table of the manager _INSTANCE refers to
module_get_hw_dimensions(instance, table, h) ==
    IF instance = None THEN [value |-> <<Some(296), Some(128)>>]
    ELSE get_hw_dimensions(table, h)

module_get_hw_string(instance, table, h) ==
    IF instance = None THEN [value |-> Some(UnknownTypeName(h))]
    ELSE get_hw_string(table, h)

module_is_in_hw_map(instance, table, h) ==
    IF instance = None THEN [value |-> FALSE]
    ELSE is_in_hw_map(table, h)

\* (mutant) an accessor that finds the table empty populates the fallback
TableAfterWarmingRead(table) ==
    IF TableIsEmpty(table) THEN FallbackTable ELSE table

\* self._tag_types after an accessor has run: none of them assigns it
TableAfterRead(table) == table

\* a synchronous caller runs every accessor and every wrapper for one
\* hardware type, at any point between two steps of the tasks
RunAccessors(h) ==
    /\ read' = [hw_type |-> h,
                dimensions |-> get_hw_dimensions(tag_types, h),
                string |-> get_hw_string(tag_types, h),
                in_hw_map |-> is_in_hw_map(tag_types, h),
                all_types |-> get_all_types(tag_types),
                module_dimensions |->
                    module_get_hw_dimensions(_INSTANCE, tag_types, h),
                module_string |-> module_get_hw_string(_INSTANCE, tag_types, h),
                module_in_hw_map |->
                    module_is_in_hw_map(_INSTANCE, tag_types, h)]
    /\ tag_types' = TableAfterRead(tag_types)
    /\ UNCHANGED <<last_update, lock, now, disk, locals, history, hw_type,
                   tag_def, singleton, records>>

\* get_tag_types_manager finds _INSTANCE None (lines 677-679): the manager
\* is constructed, stored in _INSTANCE, and its ensure_types_loaded runs up
\* to its first suspension.  The manager of the model is that manager: no
\* call has been made on it yet.
GetManager(t) ==
    /\ _INSTANCE = None
    /\ \A u \in Tasks : pc[u] = "idle"
    /\ _INSTANCE' = Some(1)
    /\ Enter(t, {"called_cold"})
    /\ read' = None
    /\ UNCHANGED <<records, hw_type, callers, now, disk, stored_data, legacy_data,
                   type_files, new_types, save_data, good_ids, fetch_result>>

\* reset_tag_types_manager (lines 683-690)
Reset ==
    /\ _INSTANCE # None
    /\ resets < MaxResets
    /\ _INSTANCE' = None
    /\ resets' = resets + 1
    /\ read' = None
    /\ UNCHANGED <<now, manager, disk, locals, history, hw_type, tag_def,
                   born, warmed, gpc, awaited, got, called_at, records>>

AccessInit ==
    /\ Constructed
    /\ NoSingleton
    /\ NoRecords
    /\ store = None
    /\ legacy_store = Some(Blob(STORAGE_VERSION, 0 - CACHE_DURATION, {2}))
    /\ legacy_file = TRUE
    /\ hw_type = [t \in Tasks |-> None]

AccessNext ==
    \/ Next
    \/ \E t \in Tasks : GetManager(t)
    \/ \E h \in HwTypes : RunAccessors(h)

AccessSpec == AccessInit /\ [][AccessNext]_vars

(***************************************************************************)
(* The singleton (lines 660-690) on its own.  Managers are numbered in the *)
(* order of their construction: born[i] is the number of resets that had   *)
(* happened when manager i was constructed, warmed holds the managers      *)
(* whose ensure_types_loaded has returned to get_tag_types_manager.  The   *)
(* warm-up itself is the protocol of Spec and is one await here.           *)
(***************************************************************************)
\* get_tag_types_manager finds _INSTANCE None (lines 677-679): constructs a
\* manager, assigns it to _INSTANCE and awaits its ensure_types_loaded
GetManagerCreates(t) ==
    /\ gpc[t] \in {"idle", "returned"}
    /\ _INSTANCE = None
    /\ born' = Append(born, resets)
    /\ _INSTANCE' = Some(Len(born) + 1)
    /\ awaited' = [awaited EXCEPT ![t] = Some(Len(born) + 1)]
    /\ gpc' = [gpc EXCEPT ![t] = "warming"]
    /\ called_at' = [called_at EXCEPT ![t] = resets]
    /\ got' = [got EXCEPT ![t] = None]
    /\ UNCHANGED <<resets, warmed, now, manager, disk, locals, history,
                   hw_type, tag_def, read, records>>

\* get_tag_types_manager finds _INSTANCE set (lines 677, 680): returns it
GetManagerFinds(t) ==
    /\ gpc[t] \in {"idle", "returned"}
    /\ _INSTANCE # None
    /\ got' = [got EXCEPT ![t] = _INSTANCE]
    /\ awaited' = [awaited EXCEPT ![t] = None]
    /\ gpc' = [gpc EXCEPT ![t] = "returned"]
    /\ called_at' = [called_at EXCEPT ![t] = resets]
    /\ UNCHANGED <<_INSTANCE, resets, born, warmed, now, manager, disk,
                   locals, history, hw_type, tag_def, read, records>>

\* the awaited ensure_types_loaded returns (line 679) and the call returns
\* the value _INSTANCE has by then (line 680)
GetManagerReturns(t) ==
    /\ gpc[t] = "warming"
    /\ warmed' = warmed \cup {Val(awaited[t])}
    /\ got' = [got EXCEPT ![t] = _INSTANCE]
    /\ gpc' = [gpc EXCEPT ![t] = "returned"]
    /\ UNCHANGED <<_INSTANCE, resets, born, awaited, called_at, now, manager,
                   disk, locals, history, hw_type, tag_def, read, records>>

SingletonInit ==
    /\ Constructed
    /\ NoSingleton
    /\ NoRecords
    /\ store = None
    /\ legacy_store = None
    /\ legacy_file = FALSE
    /\ hw_type = [t \in Tasks |-> None]

SingletonNext ==
    \/ \E t \in Tasks : GetManagerCreates(t)
    \/ \E t \in Tasks : GetManagerFinds(t)
    \/ \E t \in Tasks : GetManagerReturns(t)
    \/ Reset

SingletonSpec == SingletonInit /\ [][SingletonNext]_vars

(***************************************************************************)
(* TagType on its own: a record is built from a dict that holds any        *)
(* subset of the thirteen keys, by the constructor (wire format) or by     *)
(* from_dict (storage format), converted with to_dict and back, and saved  *)
(* and reloaded inside a table.                                            *)
(***************************************************************************)
\* the keys of a definition (lines 70-86, 99-111)
DefinitionKeys ==
    {"version", "name", "width", "height", "rotatebuffer", "bpp",
     "colortable", "shortlut", "options", "contentids", "template",
     "usetemplate", "zlib_compression"}

\* a definition that holds every key, with no value equal to its default
FullDefinition(type_id) ==
    [version |-> Some(5), name |-> Some("Type " \o str(type_id)),
     width |-> Some(640), height |-> Some(384), rotatebuffer |-> Some(1),
     bpp |-> Some(3),
     colortable |-> Some([white |-> <<255, 255, 255>>, black |-> <<0, 0, 0>>]),
     shortlut |-> Some(1), options |-> Some(<<"led">>),
     contentids |-> Some(<<22>>), template |-> Some([x |-> 1]),
     usetemplate |-> Some(1), zlib_compression |-> Some(1)]

\* the dicts a TagType is built from: any subset of the keys present
Definitions(type_id) ==
    { [k \in present |-> FullDefinition(type_id)[k]] :
          present \in SUBSET DefinitionKeys }

\* a table that holds the record next to one of a two-digit id
TableWith(r) ==
    [i \in {r.type_id, 10} |->
        IF i = r.type_id THEN r ELSE TagType(10, WireData(10))]

\* TagType(type_id, data) (lines 58-87)
Construct ==
    /\ built = None
    /\ built' = [form |-> "wire",
                 record |-> TagType(type_data.type_id, type_data.data)]
    /\ UNCHANGED <<type_data, now, manager, disk, locals, history, hw_type,
                   tag_def, read, singleton>>

\* TagType.from_dict(type_id, data) (lines 114-143)
Reconstruct ==
    /\ built = None
    /\ built' = [form |-> "storage",
                 record |-> from_dict(type_data.type_id, type_data.data)]
    /\ UNCHANGED <<type_data, now, manager, disk, locals, history, hw_type,
                   tag_def, read, singleton>>

\* a record built by the constructor, its to_dict() and from_dict of that
RoundTrip ==
    /\ built = None
    /\ LET r == TagType(type_data.type_id, type_data.data)
       IN  built' = [form |-> "round_trip",
                     record |-> r,
                     restored |-> from_dict(r.type_id, to_dict(r))]
    /\ UNCHANGED <<type_data, now, manager, disk, locals, history, hw_type,
                   tag_def, read, singleton>>

\* a table that holds the record is handed to the store by _save_to_store
\* (lines 256-263) and read back by _load_from_payload (lines 280-289)
SaveReload ==
    /\ built = None
    /\ LET r == TagType(type_data.type_id, type_data.data)
       IN  built' = [form |-> "reloaded",
                     table |-> TableWith(r),
                     restored |->
                         PayloadTable(SaveData(TableWith(r), Some(now)))]
    /\ UNCHANGED <<type_data, now, manager, disk, locals, history, hw_type,
                   tag_def, read, singleton>>

RecordInit ==
    /\ Constructed
    /\ NoSingleton
    /\ store = None
    /\ legacy_store = None
    /\ legacy_file = FALSE
    /\ hw_type = [t \in Tasks |-> None]
    /\ built = None
    /\ type_data \in UNION { { [type_id |-> i, data |-> d] :
                                  d \in Definitions(i) } : i \in HwTypes }

RecordNext ==
    \/ Construct
    \/ Reconstruct
    \/ RoundTrip
    \/ SaveReload

RecordSpec == RecordInit /\ [][RecordNext]_vars

(***************************************************************************)
(* Properties.                                                             *)
(***************************************************************************)
Done(t) == pc[t] = "done"
Inside(t) == pc[t] \notin {"idle", "lock_wait", "done"}
Fetching(t) == pc[t] \in {"fetch_list", "fetch_entry", "fetch_save"}
ValidBlob(data) == Truthy(data) /\ VersionMatches(data)

\* C1: whenever a call of ensure_types_loaded has returned, the table is not
\* empty, whatever the current store, the legacy store and the fetches gave.
C1_TableNonEmptyAfterEnsureLoaded ==
    \A t \in Tasks : Done(t) => DOMAIN tag_types # {}

\* C1's case: a call returned after its load left the table empty (a
\* payload without records) and the last-resort fallback filled it.
C1_Witness ==
    \E t \in Tasks :
        /\ Done(t)
        /\ "last_resort" \in events[t]
        /\ DOMAIN tag_types # {}

AllDone == \A t \in Tasks : Done(t)
\* every call was made while the table was still empty
AllCalledCold == \A t \in Tasks : "called_cold" \in events[t]
NumLoads == Cardinality({t \in Tasks : "load" \in events[t]})
NumColdFetches == Cardinality({t \in Tasks : "cold_fetch" \in events[t]})
NumRefreshes == Cardinality({t \in Tasks : "refresh" \in events[t]})
NumFailedRefreshes == Cardinality({t \in Tasks : "refresh_failed" \in events[t]})
NumFetches == NumColdFetches + NumRefreshes

\* C3 as stated: when all calls are made concurrently on a cold manager, the
\* load protocol has run exactly once and exactly one remote fetch has been
\* performed in total once they have all returned.
C3_ExactlyOneFetch ==
    (AllDone /\ AllCalledCold) => (NumLoads = 1 /\ NumFetches = 1)

\* C3 amended: when all calls are made concurrently on a cold manager, the
\* load protocol runs exactly once, no two fetches are ever in flight
\* together, at most one fetch belongs to the load protocol, and the calls
\* perform at most one fetch more than the refreshes that failed (none is
\* needed when a fresh blob is loaded; a failed refresh is repeated by the
\* next call).
C3_OneLoadNoParallelFetch ==
    /\ Cardinality({t \in Tasks : Fetching(t)}) <= 1
    /\ AllCalledCold =>
          /\ NumLoads <= 1
          /\ NumColdFetches <= 1
          /\ NumFetches <= 1 + NumFailedRefreshes
          /\ AllDone => NumLoads = 1

\* C3's case: all calls were made on the cold manager, one of them ran the
\* load protocol, and every one of them performed a fetch.
C3_Witness ==
    /\ AllDone
    /\ AllCalledCold
    /\ NumLoads = 1
    /\ NumFetches = NumTasks

\* the table change of a step installs a complete table: the fallback
\* table, the whole table of a loaded payload, or new_types once every
\* listed definition has been downloaded
CompleteInstall ==
    \/ tag_types' = FallbackTable
    \/ \E t \in Tasks :
         \/ /\ pc[t] = "load_current"
            /\ stored_data'[t] # None
            /\ tag_types' = PayloadTable(Val(stored_data'[t]))
         \/ /\ pc[t] = "load_legacy"
            /\ legacy_data'[t] # None
            /\ tag_types' = PayloadTable(Val(legacy_data'[t]))
         \/ /\ pc[t] = "fetch_entry"
            /\ type_files'[t] = <<>>
            /\ tag_types' = new_types'[t]

\* C4: a reader that runs at a suspension point of a load, a refresh or a
\* fallback population sees the complete table from before the operation or
\* the complete table after it: while a fetch assembles new_types the table
\* is the one the fetch found, and every change of the table installs a
\* complete table in one step.
C4_ReadersSeeCompleteTables ==
    /\ [](\A t \in Tasks :
            pc[t] \in {"fetch_list", "fetch_entry"} =>
                tag_types = Val(before[t]).tag_types)
    /\ [][tag_types' # tag_types => CompleteInstall]_vars

\* C4's case: a fetch is suspended between two downloads with a part of the
\* new table assembled, and the live table is still the old one.
C4_Witness ==
    \E t \in Tasks :
        /\ pc[t] = "fetch_entry"
        /\ DOMAIN new_types[t] # {}
        /\ DOMAIN tag_types # {}
        /\ tag_types # new_types[t]

\* C5: a fetch in which at least one listed definition downloads, parses
\* and holds version, name, width and height returns True, and the table's
\* ids are then exactly the ids of those definitions: the other entries are
\* skipped and no id of the previous table survives on its own.
C5_SuccessfulFetchInstallsValidIds ==
    \A t \in Tasks :
        fetch_result[t] # None =>
            /\ Val(fetch_result[t]).good # {} => Val(fetch_result[t]).success
            /\ Val(fetch_result[t]).success =>
                   Val(fetch_result[t]).keys = Val(fetch_result[t]).good

\* C5's case: a refresh of the table loaded from the store (ids 1 and 2)
\* succeeded although the definition of id 2 was skipped; only id 1 is left.
C5_Witness ==
    \E t \in Tasks :
        /\ Done(t)
        /\ "current_loaded" \in events[t]
        /\ "refresh_ok" \in events[t]
        /\ DOMAIN PayloadTable(Val(stored_data[t])) = {1, 2}
        /\ Val(fetch_result[t]).success
        /\ Val(fetch_result[t]).keys = {1}
        /\ DOMAIN tag_types = {1}

\* C6: after the load step of a call, a refresh is attempted exactly when
\* the timestamp is missing or more than 48 hours old: at 49 hours one
\* refresh is attempted, at 47 hours none.
C6_RefreshIffStale ==
    \A t \in Tasks :
        check[t] # Unchecked =>
            /\ "refresh" \in events[t] <=>
                   ("missing" \in DOMAIN check[t] \/ check[t].age > 48)
            /\ check[t] = [age |-> 49] => "refresh" \in events[t]
            /\ check[t] = [age |-> 47] => "refresh" \notin events[t]
            /\ (Done(t) /\ "refresh" \in events[t]) =>
                   ("refresh_ok" \in events[t]) # ("refresh_failed" \in events[t])

\* C6's case: a call found the timestamp 49 hours old and made its refresh.
C6_Witness ==
    \E t \in Tasks :
        /\ Done(t)
        /\ check[t] = [age |-> 49]
        /\ "refresh" \in events[t]

\* no fetch has succeeded so far
NoFetchSucceeded ==
    \A t \in Tasks : {"cold_fetch_ok", "refresh_ok"} \cap events[t] = {}

\* the call of t found both stores absent and its fetch failed
NothingAvailable(t) ==
    /\ "load" \in events[t]
    /\ "io_error" \notin events[t]
    /\ stored_data[t] = None
    /\ legacy_data[t] = None
    /\ "cold_fetch_failed" \in events[t]

\* C7: with the current store absent, the legacy store absent and the fetch
\* failing, the step that populates the fallback leaves exactly the static
\* fallback table with the timestamp set to the current time, and the call
\* returns with that table, its staleness check having found the timestamp
\* present and attempted no refresh.
C7_FallbackWhenNothingAvailable ==
    /\ [][\A t \in Tasks :
            ("fallback" \in events'[t] /\ "fallback" \notin events[t]) =>
                (tag_types' = FallbackTable /\ last_update' = Some(now'))]_vars
    /\ [](\A t \in Tasks :
            (NothingAvailable(t) /\ pc[t] \notin {"fetch_list", "fetch_entry"}) =>
                /\ "fallback" \in events[t]
                /\ Done(t) =>
                     /\ "refresh" \notin events[t]
                     /\ "last_resort" \notin events[t]
                     /\ "age" \in DOMAIN check[t]
                     /\ NoFetchSucceeded => tag_types = FallbackTable)

\* C7's case: such a call has returned.
C7_Witness ==
    \E t \in Tasks :
        /\ Done(t)
        /\ NothingAvailable(t)
        /\ "fallback" \in events[t]
        /\ tag_types = FallbackTable
        /\ last_update # None

\* the call of t migrated a legacy blob, no storage call raised, and the
\* store has not been rewritten by a fetch since
MigratedUndisturbed(t) ==
    /\ Done(t)
    /\ "migrated" \in events[t]
    /\ stored_data[t] = None
    /\ "io_error" \notin events[t]
    /\ NoFetchSucceeded

\* C8: when only a legacy blob of the expected version is present, then
\* after the call the current store holds the migrated records, the legacy
\* store is removed and the legacy file is absent.
C8_LegacyMigrationRemovesLegacyFile ==
    \A t \in Tasks :
        MigratedUndisturbed(t) =>
            /\ store # None
            /\ PayloadTable(Val(store)) = PayloadTable(Val(legacy_data[t]))
            /\ legacy_store = None
            /\ ~legacy_file

\* the load protocol of t has decided between legacy blob and fetch
PastLegacyDecision(t) ==
    /\ "load" \in events[t]
    /\ pc[t] \notin {"load_current", "load_legacy"}

\* C9 as stated: whenever the load protocol goes to the remote fetch (no
\* storage call having raised), no legacy blob of the expected version
\* exists: neither an absent current blob nor one of another version leads
\* to the fetch while such a legacy blob is there.
C9_LegacyBeforeFetchAlsoOnMismatch ==
    \A t \in Tasks :
        ("cold_fetch" \in events[t] /\ "io_error" \notin events[t]) =>
            ~ValidBlob(legacy_store)

\* C9 amended: when the current blob is absent and a legacy blob of the
\* expected version exists, the table is populated from the legacy blob and
\* handed to the current store instead of going to the remote fetch; a
\* current blob of another version is not treated as absent: the legacy
\* store is not consulted and the protocol goes to the remote fetch.
C9_LegacyOnlyWhenCurrentAbsent ==
    \A t \in Tasks :
        PastLegacyDecision(t) =>
            /\ ("cold_fetch" \in events[t] /\ "io_error" \notin events[t]
                  /\ ~Truthy(stored_data[t])) => ~ValidBlob(legacy_store)
            /\ "migrated" \in events[t] <=>
                   (~Truthy(stored_data[t]) /\ ValidBlob(legacy_data[t]))
            /\ "migrated" \in events[t] => "cold_fetch" \notin events[t]
            /\ pc[t] = "legacy_save" =>
                   /\ tag_types = PayloadTable(Val(legacy_data[t]))
                   /\ save_data[t] = Some(SaveData(tag_types, last_update))
            /\ (Truthy(stored_data[t]) /\ ~VersionMatches(stored_data[t])) =>
                   /\ "cold_fetch" \in events[t]
                   /\ legacy_data[t] = None

\* C9's case: the current blob was absent, the legacy blob was loaded into
\* the table and saved to the current store, and no fetch was made.
C9_Witness ==
    \E t \in Tasks :
        /\ Done(t)
        /\ stored_data[t] = None
        /\ "migrated" \in events[t]
        /\ "saved" \in events[t]
        /\ NumFetches = 0
        /\ store # None
        /\ PayloadTable(Val(store)) = tag_types

\* C10: at most one task is inside the guarded section of
\* ensure_types_loaded and it holds the lock; every step that changes the
\* table or the timestamp is a step of the task holding the lock, the
\* refresh of a stale table included.
C10_MutationsUnderGuard ==
    /\ [](/\ Cardinality({t \in Tasks : Inside(t)}) <= 1
          /\ \A t \in Tasks : Inside(t) => lock = t)
    /\ [][(tag_types' # tag_types \/ last_update' # last_update) =>
            \E t \in Tasks : lock = t /\ Inside(t) /\ pc'[t] # pc[t]]_vars

\* C10's case: a task is inside the refresh of a stale table, holding the
\* lock, while another waits for it.
C10_Witness ==
    \E t, u \in Tasks :
        /\ t # u
        /\ lock = t
        /\ pc[t] = "fetch_save"
        /\ ret[t] = "refresh"
        /\ pc[u] = "lock_wait"

\* C14: whatever the outcome of the cold-start load protocol, the removal
\* of the legacy file has been attempted when the call returns: where no
\* storage call raised, the legacy file does not exist once the call that
\* ran the load protocol has returned.
C14_CleanupForEveryOutcome ==
    \A t \in Tasks :
        (Done(t) /\ "load" \in events[t] /\ "io_error" \notin events[t]) =>
            ~legacy_file

\* C15 as stated: whenever the legacy file is deleted, the current store
\* holds the blob the deleting call has saved.
C15_FileDeletedOnlyAfterSave ==
    [][(legacy_file /\ ~legacy_file') =>
          \E t \in Tasks :
              /\ pc[t] = "cleanup"
              /\ "saved" \in events[t]
              /\ store = Some(SaveData(tag_types, last_update))]_vars

\* C15 amended: the legacy file is deleted only by the cleanup that ends
\* the fetch branch of the load protocol, by the task holding the lock,
\* after its remote fetch has returned, successfully or not; where the
\* fetch succeeded and its save did not raise, the current store then holds
\* the live table.
C15_FileDeletedOnlyAfterFetch ==
    [][(legacy_file /\ ~legacy_file') =>
          \E t \in Tasks :
              /\ pc[t] = "cleanup"
              /\ lock = t
              /\ {"cold_fetch_ok", "cold_fetch_failed"} \cap events[t] # {}
              /\ {"current_loaded", "migrated"} \cap events[t] = {}
              /\ "saved" \in events[t] =>
                     store = Some(SaveData(tag_types, last_update))]_vars

\* C15's case: a call whose fetch failed has deleted the legacy file while
\* the current store holds nothing.
C15_Witness ==
    \E t \in Tasks :
        /\ Done(t)
        /\ "cold_fetch_failed" \in events[t]
        /\ "file_removed" \in events[t]
        /\ ~legacy_file
        /\ store = None

\* the legacy decision of the load protocol was taken as for an absent
\* current blob: a legacy blob of the expected version is migrated, anything
\* else leads to the remote fetch
ContinuedAsAbsent(t) ==
    /\ "current_loaded" \notin events[t]
    /\ stored_data[t] = None
    /\ pc[t] # "load_legacy" =>
          /\ "migrated" \in events[t] <=> ValidBlob(legacy_data[t])
          /\ "migrated" \notin events[t] => "cold_fetch" \in events[t]

\* C16: an exception of a storage call does not leave ensure_types_loaded
\* and counts as no data.  When the load of the current store raised, the
\* protocol goes on as for an absent blob (legacy store, then fetch, then
\* fallback); when the load of the legacy store raised, it goes to the
\* fetch; when the save after a successful fetch raised, the fetch still
\* returns True and the table holds the new definitions; and the call
\* returns with a table and the lock released.
C16_StorageErrorsAreNoData ==
    \A t \in Tasks :
        /\ "load_raised" \in events[t] => ContinuedAsAbsent(t)
        /\ "legacy_load_raised" \in events[t] =>
              /\ legacy_data[t] = None
              /\ "migrated" \notin events[t]
              /\ "cold_fetch" \in events[t]
        /\ ("io_error" \in events[t] /\ "cold_fetch_failed" \in events[t]) =>
              "fallback" \in events[t]
        /\ "save_raised" \in events[t] =>
              /\ fetch_result[t] # None
              /\ Val(fetch_result[t]).success
              /\ Val(fetch_result[t]).keys = Val(fetch_result[t]).good
              /\ Val(fetch_result[t]).keys # {}
              /\ {"cold_fetch_ok", "refresh_ok"} \cap events[t] # {}
        /\ ("io_error" \in events[t] /\ Done(t)) =>
              /\ DOMAIN tag_types # {}
              /\ lock # t

\* C16's case: in one call the load of the current store raised, the load
\* of the legacy store raised, the fetch succeeded and its save raised.
C16_Witness ==
    \E t \in Tasks :
        /\ Done(t)
        /\ {"load_raised", "legacy_load_raised", "save_raised",
            "cold_fetch_ok"} \subseteq events[t]
        /\ DOMAIN tag_types = Val(fetch_result[t]).good

\* C18: the fetch hands a table to the current store only after it has
\* installed it as the live table with its timestamp, and only a non-empty
\* one; while the write is in progress the live table is still that table
\* (the writer holds the lock), and the blob written carries the live
\* table's records and the live timestamp.
C18_FetchSavesInstalledTable ==
    /\ [](\A t \in Tasks :
            pc[t] = "fetch_save" =>
                /\ lock = t
                /\ DOMAIN tag_types # {}
                /\ tag_types = new_types[t]
                /\ last_update # None
                /\ save_data[t] = Some(SaveData(tag_types, last_update)))
    /\ [][\A t \in Tasks :
            (pc[t] = "fetch_save" /\ pc'[t] # "fetch_save") =>
                /\ tag_types' = tag_types
                /\ last_update' = last_update
                /\ store' # store =>
                     /\ store' = Some(SaveData(tag_types, last_update))
                     /\ PayloadTable(Val(store')) = PayloadTable(SaveData(tag_types, last_update))
                     /\ DOMAIN PayloadTable(Val(store')) = DOMAIN tag_types
                     /\ PayloadLastUpdate(Val(store'), now) = last_update]_vars
    /\ [][\A t \in Tasks :
            (Fetching(t) /\ store' # store) => pc[t] = "fetch_save"]_vars

\* C18's case: a call loaded the stored blob, its refresh has replaced the
\* table and written the new one to the current store, and it has returned.
C18_Witness ==
    \E t \in Tasks :
        /\ Done(t)
        /\ {"current_loaded", "refresh_ok", "saved"} \subseteq events[t]
        /\ stored_data[t] # store
        /\ store = Some(SaveData(tag_types, last_update))

\* C19: in every call that populates the fallback, neither store gave a
\* blob of the expected version, and the call made a remote fetch, which
\* failed.
C19_FallbackOnlyAfterFailedFetch ==
    \A t \in Tasks :
        {"fallback", "last_resort"} \cap events[t] # {} =>
            /\ ~ValidBlob(stored_data[t])
            /\ ~ValidBlob(legacy_data[t])
            /\ "cold_fetch_failed" \in events[t]

\* C20: the fallback is populated only where the table is empty: a step
\* in which a call populates it starts from an empty table, so no record
\* from a store or a fetch is ever replaced by it.
C20_FallbackOnlyOnEmptyTable ==
    [][\A t \in Tasks :
          ({"fallback", "last_resort"} \cap events'[t]
               # {"fallback", "last_resort"} \cap events[t]) =>
              /\ TableIsEmpty(tag_types)
              /\ tag_types' = FallbackTable]_vars

\* C20's case: the fallback has been populated by one call, and another
\* call, made on the populated table, has returned and left it in place.
C20_Witness ==
    \E t, u \in Tasks :
        /\ t # u
        /\ {"fallback", "last_resort"} \cap events[t] # {}
        /\ Done(u)
        /\ "called_cold" \notin events[u]
        /\ {"fallback", "last_resort"} \cap events[u] = {}
        /\ tag_types = FallbackTable

\* C11: get_tag_info has a result only once ensure_types_loaded has
\* completed; it then returns the table's record of the type where the
\* table holds one, and raises KeyError where it does not: no record is
\* made up, and the type is still missing from the table afterwards.
C11_GetTagInfoRecordOrKeyError ==
    /\ [](\A t \in Tasks : tag_def[t] # None <=> Done(t))
    /\ [][\A t \in Tasks :
            (pc[t] # "done" /\ pc'[t] = "done") =>
                /\ check'[t] # Unchecked
                /\ DOMAIN tag_types' # {}
                /\ Val(hw_type[t]) \in DOMAIN tag_types' =>
                       tag_def'[t] = [value |-> tag_types'[Val(hw_type[t])]]
                /\ Val(hw_type[t]) \notin DOMAIN tag_types' =>
                       tag_def'[t] = [raised |-> "KeyError"]]_vars

\* C11's case: one call has returned the record of a known type and
\* another has raised KeyError for a type the table does not hold.
C11_Witness ==
    \E t, u \in Tasks :
        /\ Done(t)
        /\ Done(u)
        /\ "value" \in DOMAIN tag_def[t]
        /\ tag_def[t].value.type_id = Val(hw_type[t])
        /\ tag_def[u] = [raised |-> "KeyError"]
        /\ Val(hw_type[u]) \notin DOMAIN tag_types

DefaultDimensions == [value |-> <<Some(296), Some(128)>>]

\* what the accessors of a manager with the given table return for h
ManagerAnswers(dimensions, string, in_hw_map, table, h) ==
    IF h \in DOMAIN table
    THEN /\ dimensions = [value |-> <<table[h].width, table[h].height>>]
         /\ string = [value |-> table[h].name]
         /\ in_hw_map = [value |-> TRUE]
    ELSE /\ dimensions = DefaultDimensions
         /\ string = [value |-> Some("Unknown Type " \o str(h))]
         /\ in_hw_map = [value |-> FALSE]

\* C12: in every state (cold manager, load or fetch in progress, no manager
\* in _INSTANCE) the accessors return without raising: for a type the table
\* does not hold (296, 128), "Unknown Type {id}" and False, for a type it
\* holds the record's width and height, its name and True; the module's
\* wrappers return the same, and the defaults while _INSTANCE is None.
C12_AccessorsReturnRecordOrDefaults ==
    read # None =>
        /\ ManagerAnswers(read.dimensions, read.string, read.in_hw_map,
                          tag_types, read.hw_type)
        /\ ManagerAnswers(read.module_dimensions, read.module_string,
                          read.module_in_hw_map,
                          IF _INSTANCE = None THEN EmptyTable ELSE tag_types,
                          read.hw_type)
        /\ read.hw_type = 7 => read.string = [value |-> Some("Unknown Type 7")]
        /\ read.all_types = [value |-> tag_types]

\* C12's case: the accessors have just run for a type the table does not
\* hold yet, on the manager of _INSTANCE, while its first load holds the
\* lock and its table is still empty.
C12_Witness ==
    /\ read # None
    /\ read.hw_type = 2
    /\ _INSTANCE # None
    /\ TableIsEmpty(tag_types)
    /\ \E t \in Tasks : Inside(t) /\ lock = t /\ "called_cold" \in events[t]
    /\ read.dimensions = DefaultDimensions
    /\ read.module_in_hw_map = [value |-> FALSE]

\* C13: a run of the non-warming accessors leaves the table, the
\* timestamp, the lock, the stores, the legacy file and _INSTANCE as they
\* were and starts no load and no fetch (no task moves); on a cold manager
\* the table is still empty afterwards.
C13_AccessorsChangeNothing ==
    [][read' # None =>
          /\ UNCHANGED <<tag_types, last_update, lock, store, legacy_store,
                         legacy_file, _INSTANCE, pc, events>>
          /\ TableIsEmpty(tag_types) => TableIsEmpty(tag_types')]_vars

\* C13's case: the accessors have just returned on a cold manager while a
\* task holds the lock, and the table is still empty.
C13_Witness ==
    /\ read # None
    /\ lock # NoTask
    /\ TableIsEmpty(tag_types)
    /\ read.all_types = [value |-> EmptyTable]
    /\ store = None

\* C17: between two consecutive resets at most one manager is constructed,
\* and every call of get_tag_types_manager made in that window returns that
\* manager (the one constructed after the same number of resets as the
\* call saw).
C17_OneInstanceBetweenResets ==
    /\ \A i, j \in DOMAIN born : born[i] = born[j] => i = j
    /\ \A t \in Tasks :
          gpc[t] = "returned" =>
              /\ got[t] # None
              /\ born[Val(got[t])] = called_at[t]

\* the defaults the fields are documented to have, by key of the definition
DocumentedDefaults(type_id) ==
    [version |-> Some(1), name |-> Some("Unknown Type " \o str(type_id)),
     width |-> Some(296), height |-> Some(128), rotatebuffer |-> Some(0),
     bpp |-> Some(2),
     colortable |-> Some([white |-> <<255, 255, 255>>, black |-> <<0, 0, 0>>,
                          red |-> <<255, 0, 0>>]),
     shortlut |-> Some(2), options |-> Some(<<>>), contentids |-> Some(<<>>)]

\* C21: a record built by the constructor or by from_dict has, for every
\* documented key its input lacks, the documented default (version 1, name
\* "Unknown Type {id}", width 296, height 128, rotatebuffer 0, bpp 2, the
\* white/black/red color table, short LUT 2, empty options and content
\* ids), never None.
C21_MissingFieldsGetDefaults ==
    (built # None /\ built.form \in {"wire", "storage"}) =>
        \A k \in DOMAIN DocumentedDefaults(type_data.type_id)
                    \ DOMAIN type_data.data :
            /\ to_dict(built.record)[k] # None
            /\ to_dict(built.record)[k] =
                   DocumentedDefaults(type_data.type_id)[k]

\* C22: for a record r the constructor built from a definition with any
\* subset of its keys, from_dict(r.type_id, r.to_dict()) equals r on the
\* type id and on every field of to_dict; and a table saved by
\* _save_to_store and reloaded by _load_from_payload has the same keys and
\* equal records.
C22_RoundTrip ==
    /\ (built # None /\ built.form = "round_trip") =>
           /\ built.restored.type_id = built.record.type_id
           /\ to_dict(built.restored) = to_dict(built.record)
           /\ built.restored = built.record
    /\ (built # None /\ built.form = "reloaded") =>
           /\ DOMAIN built.restored = DOMAIN built.table
           /\ \A i \in DOMAIN built.table : built.restored[i] = built.table[i]

\* C22's case: a table whose record was built from a definition that has a
\* short LUT and a color table but no width and no options has been saved
\* and reloaded, and holds the two ids it held.
C22_Witness ==
    /\ built # None
    /\ built.form = "reloaded"
    /\ {"shortlut", "colortable"} \subseteq DOMAIN type_data.data
    /\ {"width", "options"} \cap DOMAIN type_data.data = {}
    /\ DOMAIN built.restored = {type_data.type_id, 10}
    /\ built.restored[type_data.type_id].width = Some(296)

\* C23: every call of ensure_types_loaded that was made returns and has
\* released the lock, whatever raised on the way, and the lock a task holds
\* is released; and while a task's fetch has not returned, no other call
\* on the manager (ensure_types_loaded or get_tag_info) completes.
C23_CallsReturnAndReleaseLock ==
    /\ \A t \in Tasks : (pc[t] # "idle") ~> (Done(t) /\ lock # t)
    /\ \A t \in Tasks : (lock = t) ~> (lock = NoTask)
    /\ [][\A t, u \in Tasks :
            (Fetching(t) /\ u # t) => (pc'[u] = "done" => pc[u] = "done")]_vars

\* C23's case: two calls have returned and the lock is free; a storage
\* call raised in the one, the other was made on the cold manager and had
\* to wait for the lock (it did not load).
C23_Witness ==
    \E t, u \in Tasks :
        /\ t # u
        /\ Done(t)
        /\ Done(u)
        /\ lock = NoTask
        /\ {"io_error", "load"} \subseteq events[t]
        /\ "called_cold" \in events[u]
        /\ "load" \notin events[u]

FetchOutcomes ==
    {"cold_fetch_ok", "cold_fetch_failed", "refresh_ok", "refresh_failed"}

\* C24: one call of ensure_types_loaded makes at most one fetch attempt:
\* never the fetch of load_stored_data and the refresh of a stale cache
\* both, and no fetch is started by a call one of whose fetches has
\* returned, whatever the stores hold and however the fetch ends.
C24_AtMostOneFetchPerCall ==
    /\ [](\A t \in Tasks :
            /\ ~({"cold_fetch", "refresh"} \subseteq events[t])
            /\ Cardinality(events[t] \cap FetchOutcomes) <= 1)
    /\ [][\A t \in Tasks :
            (pc[t] # "fetch_list" /\ pc'[t] = "fetch_list") =>
                /\ events[t] \cap ({"cold_fetch", "refresh"} \cup FetchOutcomes)
                       = {}
                /\ Cardinality(events'[t] \cap {"cold_fetch", "refresh"}) = 1]_vars

\* C24's case: a call whose fetch inside load_stored_data failed, with a
\* current store of another version, has loaded the fallback and returned
\* without a refresh.
C24_Witness ==
    \E t \in Tasks :
        /\ Done(t)
        /\ {"cold_fetch", "cold_fetch_failed", "fallback"} \subseteq events[t]
        /\ "refresh" \notin events[t]
        /\ stored_data[t] # None

\* C25: a manager that a call of get_tag_types_manager has returned is one
\* whose first ensure_types_loaded has returned, also where the call was
\* made while another call awaited that warm-up.
C25_ReturnedManagersAreWarm ==
    \A t \in Tasks :
        (gpc[t] = "returned" /\ got[t] # None) => Val(got[t]) \in warmed

\* a call passes the lock: it was not yet in the guarded section and is
\* past line 321 after the step
PassesLock(t) == pc[t] \in {"idle", "lock_wait"} /\ pc'[t] \notin {"idle", "lock_wait"}

\* C26: a refresh that fails leaves table and timestamp as they were (the
\* timestamp stale); every call that passes the lock on a loaded manager
\* whose timestamp is stale starts a fetch, one per call; a refresh that
\* succeeds installs the downloaded table and a timestamp of the time of
\* the fetch, and a call that finds the timestamp fresh returns without
\* fetching.
C26_FailedRefreshIsRetriedByEveryCall ==
    [][\A t \in Tasks :
        /\ ("refresh_failed" \in events'[t] /\ "refresh_failed" \notin events[t])
               => /\ tag_types' = tag_types
                  /\ last_update' = last_update
                  /\ IsStale(last_update', check[t].age + Val(last_update'))
        /\ (PassesLock(t) /\ ~TableIsEmpty(tag_types))
               => IF IsStale(last_update, now)
                  THEN /\ pc'[t] = "fetch_list"
                       /\ "refresh" \in events'[t]
                       /\ last_update' = last_update
                  ELSE /\ pc'[t] = "done"
                       /\ "refresh" \notin events'[t]
        /\ (pc[t] = "fetch_entry" /\ pc'[t] = "fetch_save" /\ ret[t] = "refresh")
               => /\ last_update' = Some(now)
                  /\ tag_types' = new_types'[t]
                  /\ ~TableIsEmpty(tag_types')
        /\ ("refresh_ok" \in events'[t] /\ "refresh_ok" \notin events[t])
               => ~IsStale(last_update', now')]_vars

\* C26's case: one call's refresh has failed and the next call, finding the
\* timestamp still stale, has fetched again and succeeded; the timestamp
\* is fresh.
C26_Witness ==
    \E t, u \in Tasks :
        /\ t # u
        /\ Done(t)
        /\ Done(u)
        /\ "refresh_failed" \in events[t]
        /\ "refresh_ok" \in events[u]
        /\ "called_cold" \notin events[u]
        /\ ~IsStale(last_update, now)

\* C27: every blob written to the current store (by the migration of the
\* legacy blob or by a fetch) holds at least one record.
C27_StoreNeverWrittenEmpty ==
    [][store' # store =>
          /\ store' # None
          /\ DOMAIN Val(Val(store').tag_types) # {}]_vars

\* the call's load_stored_data found both stores absent (neither load
\* raised) and went on to the fetch
FoundNothingStored(t) ==
    /\ "cold_fetch" \in events[t]
    /\ stored_data[t] = None
    /\ legacy_data[t] = None
    /\ {"load_raised", "legacy_load_raised"} \cap events[t] = {}

\* the records of the blob that are records of the fallback table
FallbackRecordsIn(blob) ==
    {i \in DOMAIN PayloadTable(blob) \cap DOMAIN FallbackTable :
        PayloadTable(blob)[i] = FallbackTable[i]}

\* C28: no write to the current store carries the fallback table: a write
\* is made by a call that has not loaded the fallback, while the table is
\* not the fallback table, and holds no fallback record; while the table
\* is the fallback of a cold start that found both stores absent the
\* current store is still absent; and a cold start that finds both stores
\* absent attempts the fetch.
C28_FallbackNeverPersisted ==
    /\ [](/\ (tag_types = FallbackTable /\ \E t \in Tasks : FoundNothingStored(t))
                => store = None
          /\ \A t \in Tasks :
                ( /\ "load" \in events[t]
                  /\ pc[t] \notin {"idle", "lock_wait", "load_current",
                                   "load_legacy"}
                  /\ stored_data[t] = None
                  /\ legacy_data[t] = None )
                => "cold_fetch" \in events[t])
    /\ [][store' # store =>
            /\ store' # None
            /\ tag_types # FallbackTable
            /\ FallbackRecordsIn(Val(store')) = {}
            /\ \E t \in Tasks :
                  /\ pc[t] \in {"legacy_save", "fetch_save"}
                  /\ store' = save_data[t]
                  /\ {"fallback", "last_resort"} \cap events[t] = {}]_vars

\* C28's case: a cold start that found both stores absent has ended with
\* the fallback table, and the current store is still absent.
C28_Witness ==
    /\ tag_types = FallbackTable
    /\ store = None
    /\ legacy_store = None
    /\ \E t \in Tasks :
          /\ Done(t)
          /\ FoundNothingStored(t)
          /\ {"cold_fetch_failed", "fallback"} \subseteq events[t]

====
